---- MODULE Spec2Model ----
(***************************************************************************)
(* Model of waverly (src/src/lib.rs): the binrw-derived chunk codecs, the  *)
(* chunk dispatch of `Chunk`, `MyFile`'s until_exclusive loop, and         *)
(* Wave::from_reader / Wave::write.                                        *)
(*                                                                         *)
(* A byte stream is a sequence of integers 0..255 and a reader position is *)
(* a 0-based offset into it.  An Option<T> is a sequence: <<>> is None and *)
(* <<x>> is Some(x).  A read returns [ok |-> TRUE, val, pos] or Fail.  The *)
(* integer endianness of a write is the host's (write_to runs with the     *)
(* default options); the model is of a little-endian host.  An f32 is      *)
(* carried as its 32-bit pattern (from_le_bytes / to_le_bytes).            *)
(***************************************************************************)
EXTENDS Integers, Sequences, FiniteSets, TLC

None == <<>>
Some(x) == <<x>>

Fail == [ok |-> FALSE]
Ok(v, p) == [ok |-> TRUE, val |-> v, pos |-> p]

RECURSIVE Pow256(_)
Pow256(k) == IF k = 0 THEN 1 ELSE 256 * Pow256(k - 1)

(* n as k little-endian bytes, n reduced to the field's width *)
ToLE(n, k) == [i \in 1..k |-> ((n % Pow256(k)) \div Pow256(i - 1)) % 256]

RECURSIVE FromLE(_)
FromLE(bs) == IF bs = <<>> THEN 0 ELSE bs[1] + 256 * FromLE(Tail(bs))

(* read_exact of n bytes at pos: fails when the stream ends first *)
ReadBytes(s, pos, n) ==
  IF pos + n <= Len(s) THEN Ok(SubSeq(s, pos + 1, pos + n), pos + n) ELSE Fail

ReadU16(s, pos) ==
  LET r == ReadBytes(s, pos, 2) IN IF r.ok THEN Ok(FromLE(r.val), r.pos) ELSE Fail

(* A u32 is the record [hi, lo] of its two 16-bit halves, hi * 2^16 + lo *)
U32(n) == [hi |-> n \div 65536, lo |-> n % 65536]

ReadU32(s, pos) ==
  LET r == ReadBytes(s, pos, 4) IN
  IF r.ok
  THEN Ok([hi |-> FromLE(SubSeq(r.val, 3, 4)), lo |-> FromLE(SubSeq(r.val, 1, 2))], r.pos)
  ELSE Fail

(* #[br(count = n)] on a Vec<u8>: the n bytes at pos, or a failure when the *)
(* stream ends before them.  n is compared with the bytes left half by     *)
(* half, so that no count is out of the range of the comparison            *)
ReadVec(s, pos, n) ==
  LET left == Len(s) - pos
      fits == \/ n.hi < left \div 65536
              \/ n.hi = left \div 65536 /\ n.lo <= left % 65536
  IN IF left >= 0 /\ fits
     THEN Ok(SubSeq(s, pos + 1, pos + n.hi * 65536 + n.lo), pos + n.hi * 65536 + n.lo)
     ELSE Fail

WriteU16(n) == ToLE(n, 2)

WriteU32(n) == ToLE(n.lo, 2) \o ToLE(n.hi, 2)

(* #[brw(magic = ...)]: read Len(m) bytes and compare them *)
ReadMagic(s, pos, m) ==
  LET r == ReadBytes(s, pos, Len(m)) IN
  IF r.ok /\ r.val = m THEN Ok(m, r.pos) ELSE Fail

RiffMagic == <<82, 73, 70, 70>>
FormatMagic == <<87, 65, 86, 69, 102, 109, 116, 32>>
FactMagic == <<102, 97, 99, 116>>
DataMagic == <<100, 97, 116, 97>>
PeakMagic == <<80, 69, 65, 75>>
EmptyMagic == <<0>>
EOFMagic == <<>>

(* enum WaveFormat, repr = u16 *)
WaveFormatRepr ==
  [Pcm |-> 1, IeeeFloat |-> 3, Alaw |-> 6, Mulaw |-> 7, Extensible |-> 8]

WaveFormat == DOMAIN WaveFormatRepr

ReadWaveFormat(s, pos) ==
  LET r == ReadU16(s, pos) IN
  IF r.ok /\ \E f \in WaveFormat : WaveFormatRepr[f] = r.val
  THEN Ok(CHOOSE f \in WaveFormat : WaveFormatRepr[f] = r.val, r.pos)
  ELSE Fail

WriteWaveFormat(f) == WriteU16(WaveFormatRepr[f])

(* enum BitDepth, repr = u16 *)
BitDepthRepr ==
  [Eight |-> 8, Sixteen |-> 16, TwentyFour |-> 24, ThirtyTwo |-> 32, SixtyFour |-> 64]

BitDepth == DOMAIN BitDepthRepr

ReadBitDepth(s, pos) ==
  LET r == ReadU16(s, pos) IN
  IF r.ok /\ \E b \in BitDepth : BitDepthRepr[b] = r.val
  THEN Ok(CHOOSE b \in BitDepth : BitDepthRepr[b] = r.val, r.pos)
  ELSE Fail

WriteBitDepth(b) == WriteU16(BitDepthRepr[b])

GuidLen == 16

(* struct ExtensibleFormat *)
ReadExtensibleFormat(s, pos) ==
  LET size == ReadU16(s, pos)
      vbps == ReadU16(s, pos + 2)
      mask == ReadU32(s, pos + 4)
      guid == ReadBytes(s, pos + 8, GuidLen)
  IN IF guid.ok
     THEN Ok([size |-> size.val, valid_bits_per_sample |-> vbps.val,
              channel_mask |-> mask.val, sub_format_guid |-> guid.val], guid.pos)
     ELSE Fail

WriteExtensibleFormat(e) ==
  WriteU16(e.size) \o WriteU16(e.valid_bits_per_sample)
    \o WriteU32(e.channel_mask) \o e.sub_format_guid

(* the condition of #[br(if(...))] on FormatChunk.extensible *)
ExtensibleGateOld(audio_format) == audio_format = "Extensible"

ExtensibleGate(audio_format) == audio_format = "Pcm"

(* struct FormatChunk *)
ReadFormatChunk(s, pos) ==
  LET m == ReadMagic(s, pos, FormatMagic)
      p == pos + Len(FormatMagic)
      size == ReadU32(s, p)
      af == ReadWaveFormat(s, p + 4)
      nc == ReadU16(s, p + 6)
      sr == ReadU32(s, p + 8)
      br == ReadU32(s, p + 12)
      ba == ReadU16(s, p + 16)
      bps == ReadBitDepth(s, p + 18)
      ext == ReadExtensibleFormat(s, p + 20)
      fixed == [size |-> size.val, audio_format |-> af.val, num_channels |-> nc.val,
                sample_rate |-> sr.val, byte_rate |-> br.val, block_align |-> ba.val,
                bits_per_sample |-> bps.val]
  IN IF ~(m.ok /\ size.ok /\ af.ok /\ nc.ok /\ sr.ok /\ br.ok /\ ba.ok /\ bps.ok)
     THEN Fail
     ELSE IF ExtensibleGate(af.val)
     THEN IF ext.ok
          THEN Ok(fixed @@ [extensible |-> Some(ext.val)], ext.pos)
          ELSE Fail
     ELSE Ok(fixed @@ [extensible |-> None], p + 20)

(* Option<ExtensibleFormat>: nothing is written for None *)
WriteOptionExtensible(o) == IF o = None THEN <<>> ELSE WriteExtensibleFormat(o[1])

WriteFormatChunk(f) ==
  FormatMagic \o WriteU32(f.size) \o WriteWaveFormat(f.audio_format)
    \o WriteU16(f.num_channels) \o WriteU32(f.sample_rate) \o WriteU32(f.byte_rate)
    \o WriteU16(f.block_align) \o WriteBitDepth(f.bits_per_sample)
    \o WriteOptionExtensible(f.extensible)

(* struct FactChunk *)
ReadFactChunk(s, pos) ==
  LET m == ReadMagic(s, pos, FactMagic)
      size == ReadU32(s, pos + 4)
      data == ReadU32(s, pos + 8)
  IN IF m.ok /\ data.ok
     THEN Ok([size |-> size.val, data |-> data.val], data.pos)
     ELSE Fail

WriteFactChunk(c) == FactMagic \o WriteU32(c.size) \o WriteU32(c.data)

(* Option<FactChunk> *)
WriteOptionFact(o) == IF o = None THEN <<>> ELSE WriteFactChunk(o[1])

(* struct DataChunk: `size` bytes follow the size field *)
ReadDataChunk(s, pos) ==
  LET m == ReadMagic(s, pos, DataMagic)
      size == ReadU32(s, pos + 4)
      data == ReadVec(s, pos + 8, size.val)
  IN IF m.ok /\ size.ok /\ data.ok
     THEN Ok([size |-> size.val, data |-> data.val], data.pos)
     ELSE Fail

WriteDataChunk(c) == DataMagic \o WriteU32(c.size) \o c.data

(* struct Peak *)
ReadPeak(s, pos) ==
  LET value == ReadU32(s, pos)
      position == ReadU32(s, pos + 4)
  IN IF position.ok
     THEN Ok([value |-> value.val, position |-> position.val], position.pos)
     ELSE Fail

WritePeak(p) == WriteU32(p.value) \o WriteU32(p.position)

PeakCount == 2

RECURSIVE ReadPeaks(_, _, _)
ReadPeaks(s, pos, n) ==
  IF n = 0 THEN Ok(<<>>, pos)
  ELSE LET p == ReadPeak(s, pos) IN
       IF ~p.ok THEN Fail
       ELSE LET rest == ReadPeaks(s, p.pos, n - 1) IN
            IF rest.ok THEN Ok(<<p.val>> \o rest.val, rest.pos) ELSE Fail

RECURSIVE WritePeaks(_)
WritePeaks(ps) == IF ps = <<>> THEN <<>> ELSE WritePeak(Head(ps)) \o WritePeaks(Tail(ps))

(* struct PeakChunk *)
ReadPeakChunk(s, pos) ==
  LET m == ReadMagic(s, pos, PeakMagic)
      size == ReadU32(s, pos + 4)
      version == ReadU32(s, pos + 8)
      timestamp == ReadU32(s, pos + 12)
      peaks == ReadPeaks(s, pos + 16, PeakCount)
  IN IF m.ok /\ timestamp.ok /\ peaks.ok
     THEN Ok([size |-> size.val, version |-> version.val,
              timestamp |-> timestamp.val, peaks |-> peaks.val], peaks.pos)
     ELSE Fail

WritePeakChunk(c) ==
  PeakMagic \o WriteU32(c.size) \o WriteU32(c.version) \o WriteU32(c.timestamp)
    \o WritePeaks(c.peaks)

(* Option<PeakChunk> *)
WriteOptionPeak(o) == IF o = None THEN <<>> ELSE WritePeakChunk(o[1])

(* struct RiffChunk *)
ReadRiffChunk(s, pos) ==
  LET m == ReadMagic(s, pos, RiffMagic)
      size == ReadU32(s, pos + 4)
  IN IF m.ok /\ size.ok THEN Ok([size |-> size.val], size.pos) ELSE Fail

WriteRiffChunk(c) == RiffMagic \o WriteU32(c.size)

Variant(kind, r) == Ok([kind |-> kind, val |-> r.val], r.pos)

(* enum Chunk: the variants are tried in declaration order, each from the  *)
(* same start position, and the first that reads without error is the      *)
(* value.  Empty and EOF are unit variants that are only a magic.          *)
ReadChunk(s, pos) ==
  LET riff == ReadRiffChunk(s, pos)
      format == ReadFormatChunk(s, pos)
      fact == ReadFactChunk(s, pos)
      peak == ReadPeakChunk(s, pos)
      data == ReadDataChunk(s, pos)
      empty == ReadMagic(s, pos, EmptyMagic)
      eof == ReadMagic(s, pos, EOFMagic)
  IN IF riff.ok THEN Variant("Riff", riff)
     ELSE IF format.ok THEN Variant("Format", format)
     ELSE IF fact.ok THEN Variant("Fact", fact)
     ELSE IF peak.ok THEN Variant("Peak", peak)
     ELSE IF data.ok THEN Variant("Data", data)
     ELSE IF empty.ok THEN Variant("Empty", empty)
     ELSE IF eof.ok THEN Variant("EOF", eof)
     ELSE Fail


(* parse_with = until_exclusive(|byte| byte == &Chunk::EOF): the chunks of *)
(* s from pos on, up to the first EOF value, and where that one was read   *)
RECURSIVE ReadChunks(_, _)
ReadChunks(s, pos) ==
  LET c == ReadChunk(s, pos) IN
  IF c.val.kind = "EOF" THEN [chunks |-> <<>>, pos |-> pos]
  ELSE LET rest == ReadChunks(s, c.pos) IN
       [chunks |-> <<c.val>> \o rest.chunks, pos |-> rest.pos]

NoSlots == [riff |-> None, format |-> None, data |-> None, fact |-> None, peak |-> None]

(* the first chunk of a kind stays *)
AssignFirst(slots, chunk) ==
  LET keep(old) == IF old = None THEN Some(chunk.val) ELSE old IN
  CASE chunk.kind = "Riff" -> [slots EXCEPT !.riff = keep(@)]
    [] chunk.kind = "Data" -> [slots EXCEPT !.data = keep(@)]
    [] chunk.kind = "Format" -> [slots EXCEPT !.format = keep(@)]
    [] chunk.kind = "Fact" -> [slots EXCEPT !.fact = keep(@)]
    [] chunk.kind = "Peak" -> [slots EXCEPT !.peak = keep(@)]
    [] OTHER -> slots

(* one iteration of `for chunk in my_file.chunks { match chunk ... }` *)
Assign(slots, chunk) ==
  CASE chunk.kind = "Riff" -> [slots EXCEPT !.riff = Some(chunk.val)]
    [] chunk.kind = "Data" -> [slots EXCEPT !.data = Some(chunk.val)]
    [] chunk.kind = "Format" -> [slots EXCEPT !.format = Some(chunk.val)]
    [] chunk.kind = "Fact" -> [slots EXCEPT !.fact = Some(chunk.val)]
    [] chunk.kind = "Peak" -> [slots EXCEPT !.peak = Some(chunk.val)]
    [] chunk.kind = "Empty" -> slots
    [] chunk.kind = "EOF" -> slots

InvalidInput(msg) == [ok |-> FALSE, err |-> "IoError", kind |-> "InvalidInput", msg |-> msg]

MissingRiff == InvalidInput("RIFF chunk was not found in file.")
MissingFormat == InvalidInput("FORMAT chunk was not found in file.")
MissingData == InvalidInput("DATA chunk was not found in file.")
MissingFact == InvalidInput("FACT format is required for non-PCM WAV formats")

OkWave(s) ==
  [ok |-> TRUE,
   wave |-> [riff |-> s.riff[1], format |-> s.format[1], data |-> s.data[1],
             fact |-> s.fact, peak |-> s.peak]]

(* the checks without the one on FACT *)
ValidateNoFact(s) ==
  IF s.riff = None THEN MissingRiff
  ELSE IF s.format = None THEN MissingFormat
  ELSE IF s.data = None THEN MissingData
  ELSE OkWave(s)

(* the FORMAT check ahead of the RIFF check *)
ValidateFormatFirst(s) ==
  IF s.format = None THEN MissingFormat
  ELSE IF s.riff = None THEN MissingRiff
  ELSE IF s.data = None THEN MissingData
  ELSE IF s.format[1].audio_format # "Pcm" /\ s.fact = None THEN MissingFact
  ELSE OkWave(s)

(* the checks of from_reader after the loop, and the value it returns *)
Validate(s) ==
  IF s.riff = None THEN MissingRiff
  ELSE IF s.format = None THEN MissingFormat
  ELSE IF s.data = None THEN MissingData
  ELSE IF s.format[1].audio_format # "Pcm" /\ s.fact = None THEN MissingFact
  ELSE OkWave(s)

(* FACT written ahead of DATA *)
WriteWaveFactFirst(w) ==
  WriteRiffChunk(w.riff) \o WriteFormatChunk(w.format)
    \o WriteOptionFact(w.fact) \o WriteDataChunk(w.data)
    \o WriteOptionPeak(w.peak)

(* struct Wave, written field by field in declaration order *)
WriteWave(w) ==
  WriteRiffChunk(w.riff) \o WriteFormatChunk(w.format) \o WriteDataChunk(w.data)
    \o WriteOptionFact(w.fact) \o WriteOptionPeak(w.peak)


(***************************************************************************)
(* The streams given to from_reader: a stream in the order RIFF, FORMAT,   *)
(* DATA, [FACT], [PEAK], changed by at most MaxEdits edits, each of which  *)
(* inserts one more chunk, filler byte or unknown tag, removes a chunk, or *)
(* cuts the last byte off the stream.                                      *)
(***************************************************************************)
MaxEdits == 1

SampleExtensible ==
  [size |-> 22, valid_bits_per_sample |-> 16, channel_mask |-> U32(3),
   sub_format_guid |-> <<1, 0, 0, 0, 0, 0, 16, 0, 128, 0, 0, 170, 0, 56, 155, 113>>]

SampleFormat(af, nc, ext) ==
  [size |-> U32(IF ext = None THEN 16 ELSE 40), audio_format |-> af, num_channels |-> nc,
   sample_rate |-> U32(44100), byte_rate |-> U32(44100 * nc * 8), block_align |-> nc * 8,
   bits_per_sample |-> "SixtyFour", extensible |-> ext]

(* a FORMAT value with the extensible record when audio_format is Pcm, as *)
(* FormatChunk is read                                                    *)
GatedFormat(af, nc) ==
  SampleFormat(af, nc, IF af = "Pcm" THEN Some(SampleExtensible) ELSE None)

SampleRiff(n) == [size |-> U32(n)]
SampleData(bs) == [size |-> U32(Len(bs)), data |-> bs]
SampleFact(n) == [size |-> U32(4), data |-> U32(n)]
(* the peaks 1.0 (0x3F800000) at frame 1000 and -0.5 (0xBF000000) at 70000 *)
SamplePeak(v) ==
  [size |-> U32(24), version |-> U32(v), timestamp |-> U32(1700000000),
   peaks |-> <<[value |-> [hi |-> 16256, lo |-> 0], position |-> U32(1000)],
               [value |-> [hi |-> 48896, lo |-> 0], position |-> U32(70000)]>>]

UnknownTag == <<76, 73, 83, 84, 4, 0, 0, 0>>

(* the pieces a stream is put together from, by name *)
Piece(name) ==
  CASE name = "RIFF" -> WriteRiffChunk(SampleRiff(100))
    [] name \in WaveFormat -> WriteFormatChunk(GatedFormat(name, 2))
    [] name = "PcmBare" -> WriteFormatChunk(SampleFormat("Pcm", 2, None))
    [] name = "ExtensibleFull" ->
         WriteFormatChunk(SampleFormat("Extensible", 2, Some(SampleExtensible)))
    [] name = "DATA" -> WriteDataChunk(SampleData(<<0, 1, 255>>))
    [] name = "FACT" -> WriteFactChunk(SampleFact(300))
    [] name = "PEAK" -> WritePeakChunk(SamplePeak(1))
    [] name = "filler" -> EmptyMagic
    [] name = "unknown" -> UnknownTag
    [] name = "RIFF2" -> WriteRiffChunk(SampleRiff(66000))
    [] name = "Pcm2" -> WriteFormatChunk(GatedFormat("Pcm", 1))
    [] name = "IeeeFloat2" -> WriteFormatChunk(GatedFormat("IeeeFloat", 1))
    [] name = "DATA2" -> WriteDataChunk(SampleData(<<7>>))
    [] name = "FACT2" -> WriteFactChunk(SampleFact(7))
    [] name = "PEAK2" -> WritePeakChunk(SamplePeak(2))

FactOptions == {<<>>, <<"FACT">>}
PeakOptions == {<<>>, <<"PEAK">>}

(* RIFF, FORMAT, DATA, [FACT], [PEAK]; cut is the number of bytes taken off the end *)
CanonicalBase(f, fa, pk) == [segs |-> <<"RIFF", f, "DATA">> \o fa \o pk, cut |-> 0]

(* canonical order, each chunk laid out as its decoder reads it *)
GatedBases ==
  {CanonicalBase(af, fa, pk) : af \in WaveFormat, fa \in FactOptions, pk \in PeakOptions}

(* the same order with a FORMAT laid out the other way: a Pcm one that has *)
(* no extensible record, an Extensible one that has it                     *)
OtherBases ==
  {CanonicalBase(f, fa, pk) :
     f \in {"PcmBare", "ExtensibleFull"}, fa \in FactOptions, pk \in PeakOptions}

Bases == GatedBases \cup OtherBases

InsertSegs ==
  {"filler", "unknown", "RIFF2", "Pcm2", "IeeeFloat2", "DATA2", "FACT2", "PEAK2"}

(* the edits; a position past the end of the list leaves the list as it is *)
InsertAt(b, i, x) ==
  IF i > Len(b.segs) THEN b
  ELSE [b EXCEPT !.segs = SubSeq(@, 1, i) \o <<x>> \o SubSeq(@, i + 1, Len(@))]
DeleteAt(b, i) ==
  IF i > Len(b.segs) THEN b
  ELSE [b EXCEPT !.segs = SubSeq(@, 1, i - 1) \o SubSeq(@, i + 1, Len(@))]
CutLast(b) == [b EXCEPT !.cut = @ + 1]

LongestBase == Len(CanonicalBase("Pcm", <<"FACT">>, <<"PEAK">>).segs)

RECURSIVE Edited(_)
Edited(k) ==
  IF k = 0 THEN Bases
  ELSE LET prev == Edited(k - 1)
           longest == LongestBase + k - 1
       IN prev
            \cup {InsertAt(b, i, x) : b \in prev, i \in 0..longest, x \in InsertSegs}
            \cup {DeleteAt(b, i) : b \in prev, i \in 1..longest}
            \cup {CutLast(b) : b \in prev}

RECURSIVE Flatten(_)
Flatten(segs) == IF segs = <<>> THEN <<>> ELSE Piece(Head(segs)) \o Flatten(Tail(segs))

Bytes(b) ==
  LET s == Flatten(b.segs) IN
  SubSeq(s, 1, IF b.cut < Len(s) THEN Len(s) - b.cut ELSE 0)

Inputs == {Bytes(b) : b \in Edited(MaxEdits)}

VARIABLES input, pos, chunks, pc, idx, slots, result, output

vars == <<input, pos, chunks, pc, idx, slots, result, output>>

Pending == [ok |-> FALSE, err |-> "none", kind |-> "none", msg |-> ""]

Init ==
  /\ input \in Inputs
  /\ pos = 0
  /\ chunks = <<>>
  /\ pc = "read"
  /\ idx = 1
  /\ slots = NoSlots
  /\ result = Pending
  /\ output = <<>>

(* MyFile::read, one round of until_exclusive that keeps the chunk it read *)
ReadNextChunk ==
  /\ pc = "read"
  /\ LET c == ReadChunk(input, pos) IN
     /\ c.val.kind # "EOF"
     /\ chunks' = Append(chunks, c.val)
     /\ pos' = c.pos
  /\ UNCHANGED <<input, pc, idx, slots, result, output>>

(* MyFile::read, the round that reads Chunk::EOF and ends the list *)
ReadEOF ==
  /\ pc = "read"
  /\ ReadChunk(input, pos).val.kind = "EOF"
  /\ pc' = "fold"
  /\ UNCHANGED <<input, pos, chunks, idx, slots, result, output>>

(* from_reader, one iteration of the loop over my_file.chunks *)
FoldChunk ==
  /\ pc = "fold"
  /\ idx <= Len(chunks)
  /\ slots' = Assign(slots, chunks[idx])
  /\ idx' = idx + 1
  /\ UNCHANGED <<input, pos, chunks, pc, result, output>>

(* from_reader after the loop: the four checks and the return *)
Return ==
  /\ pc = "fold"
  /\ idx > Len(chunks)
  /\ result' = Validate(slots)
  /\ pc' = "returned"
  /\ UNCHANGED <<input, pos, chunks, idx, slots, output>>

(* Wave::write of the Wave that from_reader returned *)
Write ==
  /\ pc = "returned"
  /\ result.ok
  /\ output' = WriteWave(result.wave)
  /\ pc' = "written"
  /\ UNCHANGED <<input, pos, chunks, idx, slots, result>>

Next == ReadNextChunk \/ ReadEOF \/ FoldChunk \/ Return \/ Write

Spec == Init /\ [][Next]_vars


(***************************************************************************)
(* Properties                                                              *)
(***************************************************************************)
Returned == pc \in {"returned", "written"}

FormatPieces == WaveFormat \cup {"PcmBare", "ExtensibleFull"}

(* the streams in canonical order: every audioFormat, the FORMAT chunk     *)
(* with or without the extensible record, FACT and PEAK optional           *)
CanonicalStreams == {Bytes(b) : b \in Bases}

(* exactly RIFF, FORMAT, DATA and then the end of the stream *)
RFDStreams == {Bytes(CanonicalBase(f, <<>>, <<>>)) : f \in FormatPieces}

(* C1: every well-formed stream in canonical order is decoded without     *)
(* error and written back byte for byte, with the same total length.      *)
C1_RoundTripOfEveryCanonicalStream ==
  input \in CanonicalStreams =>
    /\ pc = "returned" => result.ok
    /\ pc = "written" => output = input /\ Len(output) = Len(input)

(* C2 as stated: a stream with no RIFF fails with missing-RIFF, one with   *)
(* no FORMAT with missing-FORMAT, one with no DATA with missing-DATA.      *)
C2_EachMissingChunkIsTheOneReported ==
  pc = "returned" =>
    /\ slots.riff = None => result = MissingRiff
    /\ slots.format = None => result = MissingFormat
    /\ slots.data = None => result = MissingData

(* C2 amended: no Wave is returned when RIFF, FORMAT or DATA was not       *)
(* decoded; the condition reported is that of the first missing one in the *)
(* order RIFF, FORMAT, DATA; and the three conditions differ.              *)
C2_FirstMissingChunkIsReported ==
  /\ MissingRiff # MissingFormat /\ MissingRiff # MissingData /\ MissingFormat # MissingData
  /\ pc = "returned" =>
       /\ slots.riff = None => result = MissingRiff
       /\ slots.riff # None /\ slots.format = None => result = MissingFormat
       /\ slots.riff # None /\ slots.format # None /\ slots.data = None
            => result = MissingData
       /\ slots.riff = None \/ slots.format = None \/ slots.data = None => ~result.ok

C2_Witness ==
  pc = "returned" /\ slots.riff # None /\ slots.format = None /\ result = MissingFormat

(* C3: with RIFF, FORMAT and DATA decoded, an audioFormat other than Pcm   *)
(* and no FACT decoded, from_reader fails with missing-FACT; and a Wave it *)
(* returns has audio_format Pcm or a FACT chunk.                           *)
C3_FactRequiredUnlessPcm ==
  pc = "returned" =>
    /\ (/\ slots.riff # None /\ slots.format # None /\ slots.data # None
        /\ slots.format[1].audio_format # "Pcm" /\ slots.fact = None)
         => result = MissingFact
    /\ result.ok =>
         result.wave.format.audio_format = "Pcm" \/ result.wave.fact # None

C3_Witness ==
  /\ pc = "returned"
  /\ result = MissingFact
  /\ slots.format[1].audio_format = "IeeeFloat"

(* C4: the bytes written are RIFF, FORMAT, DATA, then FACT if present,     *)
(* then PEAK if present, and nothing more, whatever the order of the       *)
(* chunks in the input: read back, they are exactly that chunk list.       *)
C4_WriteOrderIsCanonical ==
  pc = "written" =>
    LET w == result.wave
        back == ReadChunks(output, 0)
        some(kind, o) == IF o = None THEN <<>> ELSE <<[kind |-> kind, val |-> o[1]]>>
    IN /\ back.pos = Len(output)
       /\ back.chunks =
            <<[kind |-> "Riff", val |-> w.riff], [kind |-> "Format", val |-> w.format],
              [kind |-> "Data", val |-> w.data]>>
              \o some("Fact", w.fact) \o some("Peak", w.peak)

C4_Witness ==
  /\ pc = "written"
  /\ result.wave.peak # None
  /\ \E i, j \in 1..Len(chunks) :
       i < j /\ chunks[i].kind = "Fact" /\ chunks[j].kind = "Data"

(* C5: RIFF, FORMAT, DATA and then the end of the stream decodes to a Wave *)
(* without error, for every audioFormat.                                   *)
C5_RiffFormatDataAlwaysDecodes ==
  input \in RFDStreams /\ pc = "returned" => result.ok

SomeMagicAt(s, p, ms) == \E m \in ms : ReadMagic(s, p, m).ok

ChunkMagics == {RiffMagic, FormatMagic, FactMagic, PeakMagic, DataMagic}

(* C6: when the bytes where the chunk list ended match none of the magics  *)
(* and the stream is not at its end, from_reader fails with a structural   *)
(* parse failure.                                                          *)
C6_UnknownTagIsParseFailure ==
  (/\ pc = "returned"
   /\ pos < Len(input)
   /\ ~SomeMagicAt(input, pos, ChunkMagics \cup {EmptyMagic}))
    => ~result.ok /\ result.err = "ParseError"

(* C7: when a chunk's magic matches but its body cannot be decoded,        *)
(* from_reader fails, and not with one of the missing-chunk conditions.    *)
C7_UndecodableBodyIsReadFailure ==
  (/\ pc = "returned"
   /\ pos < Len(input)
   /\ SomeMagicAt(input, pos, ChunkMagics))
    => /\ ~result.ok
       /\ result \notin {MissingRiff, MissingFormat, MissingData, MissingFact}

(* C8: what is written for a decoded input has the input's length, is not  *)
(* empty and begins with "RIFF".                                           *)
C8_WrittenLengthIsInputLength ==
  pc = "written" =>
    /\ Len(output) = Len(input)
    /\ Len(output) # 0
    /\ SubSeq(output, 1, 4) = RiffMagic

(* C9: in a Wave that from_reader returns, format.extensible is present    *)
(* exactly when the condition on audio_format holds (audio_format = Pcm),  *)
(* so absent for IeeeFloat; and the bytes written for the FormatChunk      *)
(* decode to an equal FormatChunk.                                         *)
C9_ExtensibleAgreesWithGate ==
  Returned /\ result.ok =>
    LET f == result.wave.format
        bytes == WriteFormatChunk(f)
    IN /\ f.extensible # None <=> f.audio_format = "Pcm"
       /\ f.audio_format = "IeeeFloat" => f.extensible = None
       /\ Len(bytes) = (IF f.extensible = None THEN 28 ELSE 52)
       /\ ReadFormatChunk(bytes, 0) = Ok(f, Len(bytes))

C9_Witness ==
  /\ pc = "written"
  /\ result.wave.format.audio_format = "IeeeFloat"
  /\ result.wave.format.extensible = None

Last(cs, kind) ==
  LET at == {i \in 1..Len(cs) : cs[i].kind = kind} IN
  IF at = {} THEN None
  ELSE Some(cs[CHOOSE i \in at : \A j \in at : j <= i].val)

(* C10: of several chunks of one kind the last in stream order is the one  *)
(* kept, for each kind, with no error for the duplicate; the FACT check    *)
(* reads the audioFormat of the last FORMAT chunk.                         *)
C10_LastChunkOfAKindWins ==
  Returned =>
    /\ slots.riff = Last(chunks, "Riff")
    /\ slots.format = Last(chunks, "Format")
    /\ slots.data = Last(chunks, "Data")
    /\ slots.fact = Last(chunks, "Fact")
    /\ slots.peak = Last(chunks, "Peak")
    /\ result.ok \/ result \in {MissingRiff, MissingFormat, MissingData, MissingFact}
    /\ (/\ Last(chunks, "Riff") # None /\ Last(chunks, "Format") # None
        /\ Last(chunks, "Data") # None)
         => (result.ok <=> (\/ Last(chunks, "Format")[1].audio_format = "Pcm"
                            \/ Last(chunks, "Fact") # None))
    /\ result.ok =>
         /\ <<result.wave.riff>> = Last(chunks, "Riff")
         /\ <<result.wave.format>> = Last(chunks, "Format")
         /\ <<result.wave.data>> = Last(chunks, "Data")
         /\ result.wave.fact = Last(chunks, "Fact")
         /\ result.wave.peak = Last(chunks, "Peak")

C10_Witness ==
  /\ pc = "returned"
  /\ result.ok
  /\ slots.fact = None
  /\ \E i, j \in 1..Len(chunks) :
       /\ i < j
       /\ chunks[i].kind = "Format" /\ chunks[j].kind = "Format"
       /\ chunks[i].val.audio_format = "IeeeFloat"
       /\ chunks[j].val.audio_format = "Pcm"

====
